---- MODULE Spec2Model ----
(***************************************************************************)
(* The Battle Room Coordinator: one battle room of the Room Store          *)
(* (battle_rooms row + battle_participants rows) and the clients that act  *)
(* on it through the Battle page (lobby, join by code) and the BattleRoom  *)
(* component (waiting room: snapshot query, change feed, countdown effect, *)
(* kick detection, leave / kick / manual start mutations).                 *)
(*                                                                         *)
(* Every Supabase call is one atomic step on the store; what a client does *)
(* between two awaits is one local step.  A client never reads the store   *)
(* directly in BattleRoom: it reads its react-query snapshot (cache),      *)
(* which is as old as its last Refresh.                                    *)
(***************************************************************************)
EXTENDS Integers, FiniteSets, Sequences, TLC

\* ------------------------------------------------------------------ bounds
NumUsers == 3
MaxTime == 10
MaxInserts == 3
MaxPings == 2

Users == 1..NumUsers
Null == 0 - 1

\* ------------------------------------------------------- program constants
RoomId == "r1"
NoRoomId == "none"
RoomCode == "AB12CD"
Codes == {"AB12CD", "ab12cd", "ZZ99ZZ"}
BattleTypes == {"1v1", "2v2", "ffa"}

\* String.prototype.toUpperCase on the codes a user can type
ToUpperCase(s) == IF s = "ab12cd" THEN "AB12CD" ELSE s

\* maxPlayers derived from the battle type at room creation
MaxPlayersOf(t) ==
  IF t = "1v1" THEN 2 ELSE IF t = "2v2" THEN 4 ELSE IF t = "ffa" THEN 100 ELSE 4

\* initialCountdownDuration of the countdown effect
CountdownDuration(t) == IF t = "1v1" THEN 5 ELSE 10

\* A remaining time that is not kept from going below zero; kept to show what
\* C14 rules out.
TimeRemainingUnclamped(t, at, n) ==
  IF at # Null THEN CountdownDuration(t) - (n - at) ELSE CountdownDuration(t)

\* calculatedTimeRemaining of the countdown effect at clock value n:
\* Math.max(0, initialCountdownDuration - Math.floor(timeElapsed)), or the
\* whole duration when no countdown start is stored
CalculatedTimeRemaining(t, at, n) ==
  IF at # Null
  THEN (IF CountdownDuration(t) - (n - at) > 0 THEN CountdownDuration(t) - (n - at) ELSE 0)
  ELSE CountdownDuration(t)

VARIABLES
  room,            \* the battle_rooms row
  participants,    \* the battle_participants rows of the room
  nextCreatedAt,   \* created_at given to the next inserted participant row
  now,             \* wall clock, whole seconds
  currentView,     \* Battle page: currentView of each client
  currentRoomId,   \* Battle page: currentRoomId of each client
  cache,           \* react-query data of ['battleRoom', roomId] of each client
  isLeaving,       \* BattleRoom state isLeaving
  countdown,       \* BattleRoom state countdown (Null or seconds)
  timer,           \* countdownTimerRef: "off", "armed" (interval running), "due"
  pendingStart,    \* an updateStatus() request (status: in_progress) is in flight
  pc,              \* position of the client's mutation in flight
  inbox,           \* room UPDATE events of the change feed not yet handled
  roomCodeToJoin,  \* Battle page: the code typed into the join field
  toast,           \* the last toast shown to the client
  otherJoin,       \* a join of the same user from a second session is in flight
  prevPing,        \* prevHostPingRequestedAt / prevHostPingSenderId refs
  pingNotices,     \* the "Ping Received!" toasts shown so far
  nextPing,        \* timestamp given to the next ping written
  otherRooms,      \* battle_rooms rows of rooms that are not followed further
  gameResults      \* Battle page: gameResults of each client (Null or results)

vars == <<room, participants, nextCreatedAt, now, currentView, currentRoomId,
          cache, isLeaving, countdown, timer, pendingStart, pc, inbox,
          roomCodeToJoin, toast, otherJoin, prevPing, pingNotices, nextPing,
          otherRooms, gameResults>>

storeVars == <<room, participants, nextCreatedAt>>
localVars == <<currentView, currentRoomId, cache, isLeaving, countdown, timer,
               pendingStart, pc, inbox, roomCodeToJoin, toast>>
pingVars == <<prevPing, pingNotices, nextPing>>
pageVars == <<otherRooms, gameResults>>

\* ----------------------------------------------------------------- helpers
NoData == [loaded |-> FALSE]

\* the row set the room query returns: the room row with its participants
Snapshot == [loaded |-> TRUE, room |-> room, battle_participants |-> participants]

UserIds(rows) == {p.user_id : p \in rows}

Mounted(c) == currentView[c] = "room_waiting" /\ currentRoomId[c] = RoomId

\* the Battle page renders its default view, the lobby: none of the three
\* conditional returns applies
LobbyShown(c) ==
  /\ ~(currentView[c] = "room_waiting" /\ currentRoomId[c] # NoRoomId)
  /\ ~(currentView[c] = "game_active" /\ currentRoomId[c] # NoRoomId)
  /\ ~(currentView[c] = "game_results" /\ gameResults[c] # Null)

\* A room row inserted without its host; kept to show what C21 rules out.
NewRoomWithoutHost(host, t) ==
  [status |-> "waiting", host_id |-> Null, countdown_initiated_at |-> Null,
   battle_type |-> t, max_players |-> MaxPlayersOf(t),
   host_ping_requested_at |-> Null, last_ping_sender_id |-> Null]

\* a freshly inserted battle_rooms row
NewRoom(host, t) ==
  [status |-> "waiting", host_id |-> host, countdown_initiated_at |-> Null,
   battle_type |-> t, max_players |-> MaxPlayersOf(t),
   host_ping_requested_at |-> Null, last_ping_sender_id |-> Null]

\* the followed room before createRoom has inserted it
NoRoom == [NewRoom(Null, "1v1") EXCEPT !.status = "absent"]

\* the id of the one room of the store that is not followed further
OtherRoomId == "r2"

\* A store that accepts any room code; kept to show what C22 rules out.
RoomCodeNeverTaken(code) == FALSE

\* battle_rooms is unique on the room code: a row with this code is stored
RoomCodeTaken(code) ==
  \/ (room.status # "absent" /\ code = RoomCode)
  \/ \E r \in otherRooms : r.room_code = code

\* the rows the room lookup of joinRoomByCodeMutation selects:
\* .eq('room_code', code.toUpperCase()).eq('status', 'waiting')
Matches(code) ==
  (IF room.status = "waiting" /\ ToUpperCase(code) = RoomCode THEN {RoomId} ELSE {})
    \cup {r.id : r \in {o \in otherRooms : o.status = "waiting" /\ o.room_code = ToUpperCase(code)}}

\* .single() of the lookup: the id of the one selected row, or an error when
\* no row or more than one row is selected
ResolvedRoom(code) ==
  IF Cardinality(Matches(code)) = 1 THEN CHOOSE i \in Matches(code) : TRUE ELSE NoRoomId

\* remainingParticipants.sort(by created_at)[0]
Earliest(rows) == CHOOSE p \in rows : \A q \in rows : p.created_at <= q.created_at


\* ------------------------------------------------- BattleRoom render effects
\* A countdown effect that takes any room of two or more players for a full
\* one: not the program's, kept to show what C8 rules out.
CountdownEffectAnyTwo(d) ==
  IF ~d.loaded \/ d.room.status = "in_progress"
  THEN [countdown |-> Null, timer |-> "off", write |-> FALSE]
  ELSE
    LET remaining == CountdownDuration(d.room.battle_type) - (now - d.room.countdown_initiated_at)
        calculatedTimeRemaining ==
          IF d.room.countdown_initiated_at # Null
          THEN (IF remaining > 0 THEN remaining ELSE 0)
          ELSE CountdownDuration(d.room.battle_type)
    IN IF d.room.status = "waiting" /\ Cardinality(d.battle_participants) >= 2
       THEN [countdown |-> calculatedTimeRemaining,
             timer |-> IF calculatedTimeRemaining > 0 THEN "armed" ELSE "off",
             write |-> calculatedTimeRemaining <= 0]
       ELSE [countdown |-> Null, timer |-> "off", write |-> FALSE]

\* The countdown effect, run to its fixed point.  It re-runs whenever room or
\* countdown changes, clears the interval first, and sets countdown to
\* calculatedTimeRemaining, so what it leaves depends on the snapshot and the
\* clock only.  write: updateStatus() was called (calculatedTimeRemaining <= 0).
CountdownEffect(d) ==
  IF ~d.loaded \/ d.room.status = "in_progress"
  THEN [countdown |-> Null, timer |-> "off", write |-> FALSE]
  ELSE
    LET currentPlayers == Cardinality(d.battle_participants)
        isRoomFull == currentPlayers = d.room.max_players
        isWaitingStatus == d.room.status = "waiting"
        isCountdownInitiatedByDB == d.room.countdown_initiated_at # Null
        calculatedTimeRemaining ==
          CalculatedTimeRemaining(d.room.battle_type, d.room.countdown_initiated_at, now)
    IN IF isWaitingStatus /\ (isRoomFull \/ isCountdownInitiatedByDB)
       THEN [countdown |-> calculatedTimeRemaining,
             timer |-> IF calculatedTimeRemaining > 0 THEN "armed" ELSE "off",
             write |-> calculatedTimeRemaining <= 0]
       ELSE [countdown |-> Null, timer |-> "off", write |-> FALSE]

\* the refs of the host ping effect of a BattleRoom that has just mounted
NoPing == [at |-> Null, sender |-> Null]

\* the ping a snapshot carries
PingOf(d) == [at |-> d.room.host_ping_requested_at, sender |-> d.room.last_ping_sender_id]

\* The host ping effect raises "Ping Received!": the snapshot names the client
\* host and carries a ping that differs from the refs.
PingNoticed(c, d) ==
  /\ d.loaded
  /\ d.room.host_id = c
  /\ d.room.host_ping_requested_at # Null
  /\ PingOf(d) # prevPing[c]

\* The kick test of the join/leave effect: the client's own row is not in the
\* snapshot, the snapshot does not name it host, and it is not leaving.
KickDetected(c, d, leaving) ==
  /\ d.loaded
  /\ c \notin UserIds(d.battle_participants)
  /\ d.room.host_id # c
  /\ ~leaving

\* prevParticipantsCount of the join/leave effect: null in a BattleRoom that
\* has just mounted, else the number of rows of the snapshot rendered last
PrevParticipantsCount(c) ==
  IF Mounted(c) /\ cache[c].loaded THEN Cardinality(cache[c].battle_participants) ELSE Null

\* The join/leave notice of the join/leave effect for snapshot d.  The count
\* is compared with prevParticipantsCount; oldParticipants is read with
\* queryClient.getQueryData, which at the time the effect runs returns the
\* snapshot being rendered.
PlayerNotice(c, d) ==
  LET prev == PrevParticipantsCount(c)
      currentPlayers == IF d.loaded THEN Cardinality(d.battle_participants) ELSE 0
      oldParticipants == IF d.loaded THEN d.battle_participants ELSE {}
      newlyJoined == {p \in d.battle_participants : p.user_id \notin UserIds(oldParticipants)}
      removed == {p \in oldParticipants : p.user_id \notin UserIds(d.battle_participants)}
  IN IF ~d.loaded \/ prev = Null \/ prev = currentPlayers THEN "none"
     ELSE IF currentPlayers > prev
     THEN (IF newlyJoined # {} THEN "player_joined" ELSE "none")
     ELSE (IF removed # {} THEN "player_left" ELSE "none")

\* The views onLeave of BattleRoom can end in.  onLeave sets the page state;
\* the roomStatusChannel is only removed by the effect cleanup of the unmount
\* that follows, so the handler of an in_progress event that is still queued
\* may run in between and call onBattleStart.
ViewsAfterLeave(c) ==
  IF "in_progress" \in inbox[c] THEN {"lobby", "game_active"} ELSE {"lobby"}

\* What a render of BattleRoom with snapshot d leaves in client c: the
\* countdown effect, the join/leave notice, the kick effect (toast, onLeave,
\* unmount cleanup) and the host ping effect.
Rendered(c, d, leaving, shown) ==
  LET e == CountdownEffect(d)
      kicked == KickDetected(c, d, leaving)
      pinged == PingNoticed(c, d)
      first == [to |-> c, at |-> d.room.host_ping_requested_at,
                sender |-> d.room.last_ping_sender_id, nth |-> 1]
  IN /\ countdown' = [countdown EXCEPT ![c] = IF kicked THEN Null ELSE e.countdown]
     /\ timer' = [timer EXCEPT ![c] = IF kicked THEN "off" ELSE e.timer]
     /\ pendingStart' = [pendingStart EXCEPT ![c] = @ \/ e.write]
     /\ \E v \in ViewsAfterLeave(c) :
          currentView' = [currentView EXCEPT ![c] = IF kicked THEN v ELSE "room_waiting"]
     /\ currentRoomId' = [currentRoomId EXCEPT ![c] = IF kicked THEN NoRoomId ELSE RoomId]
     /\ isLeaving' = [isLeaving EXCEPT ![c] = IF kicked THEN FALSE ELSE leaving]
     /\ toast' = [toast EXCEPT ![c] = IF kicked THEN "kicked"
                                      ELSE IF pinged THEN "ping_received"
                                      ELSE IF PlayerNotice(c, d) # "none" THEN PlayerNotice(c, d)
                                      ELSE shown]
     /\ inbox' = [inbox EXCEPT ![c] = IF kicked THEN {} ELSE @]
     /\ prevPing' = [prevPing EXCEPT ![c] =
                       IF kicked THEN NoPing
                       ELSE IF d.loaded /\ d.room.host_id = c THEN PingOf(d) ELSE @]
     /\ pingNotices' =
          IF ~pinged THEN pingNotices
          ELSE IF first \in pingNotices
               THEN pingNotices \cup {[first EXCEPT !.nth = 2]}
               ELSE pingNotices \cup {first}

\* every mounted client is subscribed to UPDATE events of the room row; the
\* handler acts on payload.new.status in_progress and completed only
Notified(s) ==
  [c \in Users |->
     IF Mounted(c) /\ s \in {"in_progress", "completed"}
     THEN inbox[c] \cup {s} ELSE inbox[c]]

\* the status revert of leave / kick onSuccess, decided on the cached snapshot
NeedsRevert(d) ==
  /\ d.loaded
  /\ d.room.status = "in_progress"
  /\ Cardinality(d.battle_participants) <= d.room.max_players
  /\ Cardinality(d.battle_participants) - 1 < d.room.max_players

\* some countdown_initiated_at is held by the store or by a snapshot, so that
\* the value of the clock can be observed
TimestampsExist ==
  \/ room.countdown_initiated_at # Null
  \/ \E c \in Users : cache[c].loaded /\ cache[c].room.countdown_initiated_at # Null

\* ------------------------------------------------------------ Battle page
\* joinRoomByCodeMutation.mutationFn up to the insert: the room lookup by code
\* and status, the full check, the already-participant check; onError shows
\* the error, onSuccess moves the view to room_waiting, where BattleRoom
\* mounts on the cached snapshot.  A client that joins the room that is not
\* followed is in its waiting room from then on.
JoinMutation(c, code) ==
  /\ LobbyShown(c)
  /\ pc[c] = "idle"
  /\ nextCreatedAt + Cardinality({d \in Users : pc[d] = "join_insert"}) < MaxInserts
  /\ LET found == ResolvedRoom(code) # NoRoomId
         full == Cardinality(participants) >= room.max_players
         alreadyParticipant == c \in UserIds(participants)
     IN IF ~found
        THEN /\ toast' = [toast EXCEPT ![c] = "not_found"]
             /\ UNCHANGED <<currentView, currentRoomId, isLeaving, countdown, timer,
                            pendingStart, inbox, pc, prevPing, pingNotices>>
        ELSE IF ResolvedRoom(code) # RoomId
        THEN /\ toast' = [toast EXCEPT ![c] = "joined"]
             /\ currentView' = [currentView EXCEPT ![c] = "room_waiting"]
             /\ currentRoomId' = [currentRoomId EXCEPT ![c] = ResolvedRoom(code)]
             /\ UNCHANGED <<isLeaving, countdown, timer, pendingStart, inbox, pc,
                            prevPing, pingNotices>>
        ELSE IF full
        THEN /\ toast' = [toast EXCEPT ![c] = "full"]
             /\ UNCHANGED <<currentView, currentRoomId, isLeaving, countdown, timer,
                            pendingStart, inbox, pc, prevPing, pingNotices>>
        ELSE IF alreadyParticipant
        THEN /\ Rendered(c, cache[c], FALSE, "joined")
             /\ UNCHANGED pc
        ELSE /\ pc' = [pc EXCEPT ![c] = "join_insert"]
             /\ UNCHANGED <<currentView, currentRoomId, isLeaving, countdown, timer,
                            pendingStart, inbox, toast, prevPing, pingNotices>>
  /\ UNCHANGED <<room, participants, nextCreatedAt, now, cache, otherJoin, nextPing>>
  /\ UNCHANGED pageVars

\* handleJoinActiveRoom: join a room of the lobby list by its room_code
JoinFromList(c) ==
  /\ JoinMutation(c, RoomCode)
  /\ UNCHANGED roomCodeToJoin

\* the join field and its button: the typed code is joined
JoinByCode(c, code) ==
  /\ roomCodeToJoin' = [roomCodeToJoin EXCEPT ![c] = code]
  /\ JoinMutation(c, code)

\* An insert into battle_participants that does not check the rows the store
\* already holds; kept to show what C12 rules out.
InsertAnyway(u) ==
  participants \cup {[user_id |-> u, created_at |-> nextCreatedAt]}

\* The store's insert into battle_participants: the table is unique on (room,
\* user), so the insert of a second row of the user is refused.
InsertParticipant(u) ==
  IF u \in UserIds(participants)
  THEN participants
  ELSE participants \cup {[user_id |-> u, created_at |-> nextCreatedAt]}

\* the participant insert of joinRoomByCodeMutation and its onSuccess, or its
\* onError when the store refuses the insert
JoinInsert(c) ==
  /\ pc[c] = "join_insert"
  /\ participants' = InsertParticipant(c)
  /\ pc' = [pc EXCEPT ![c] = "idle"]
  /\ IF c \in UserIds(participants)
     THEN /\ toast' = [toast EXCEPT ![c] = "join_error"]
          /\ UNCHANGED <<nextCreatedAt, currentView, currentRoomId, isLeaving, countdown,
                         timer, pendingStart, inbox, prevPing, pingNotices>>
     ELSE /\ nextCreatedAt' = nextCreatedAt + 1
          /\ Rendered(c, cache[c], FALSE, "joined")
  /\ UNCHANGED <<room, now, cache, roomCodeToJoin, otherJoin, nextPing>>
  /\ UNCHANGED pageVars

\* createRoomMutation.mutationFn, first request: the insert of the room row
\* with the generated code; the store refuses a code it already holds and
\* onError shows the error
CreateRoom(c, t) ==
  /\ LobbyShown(c)
  /\ pc[c] = "idle"
  /\ room.status = "absent"
  /\ IF RoomCodeTaken(RoomCode)
     THEN /\ toast' = [toast EXCEPT ![c] = "create_error"]
          /\ UNCHANGED <<room, pc>>
     ELSE /\ room' = NewRoom(c, t)
          /\ pc' = [pc EXCEPT ![c] = "create_participant"]
          /\ UNCHANGED toast
  /\ UNCHANGED <<participants, nextCreatedAt, now, currentView, currentRoomId, cache,
                 isLeaving, countdown, timer, pendingStart, inbox, roomCodeToJoin>>
  /\ UNCHANGED <<otherJoin, prevPing, pingNotices, nextPing, otherRooms, gameResults>>

\* createRoomMutation.mutationFn, second request: the insert of the creator's
\* participant row.  When the store accepts it, onSuccess moves the page to
\* the waiting room of the new room, where BattleRoom mounts without a
\* snapshot; when it fails, the rollback follows.
CreateParticipant(c) ==
  /\ pc[c] = "create_participant"
  /\ \E accepted \in BOOLEAN :
       IF accepted
       THEN /\ participants' = InsertParticipant(c)
            /\ nextCreatedAt' = nextCreatedAt + 1
            /\ pc' = [pc EXCEPT ![c] = "idle"]
            /\ cache' = [cache EXCEPT ![c] = NoData]
            /\ Rendered(c, NoData, FALSE, "created")
       ELSE /\ pc' = [pc EXCEPT ![c] = "create_rollback"]
            /\ UNCHANGED <<participants, nextCreatedAt, cache, currentView, currentRoomId,
                           isLeaving, countdown, timer, pendingStart, inbox, toast,
                           prevPing, pingNotices>>
  /\ UNCHANGED <<room, now, roomCodeToJoin, otherJoin, nextPing, otherRooms, gameResults>>

\* createRoomMutation.mutationFn, rollback: the delete of the room row, whose
\* outcome is not looked at, then the throw and onError
CreateRollback(c) ==
  /\ pc[c] = "create_rollback"
  /\ \E deleted \in BOOLEAN :
       room' = IF deleted THEN [room EXCEPT !.status = "deleted"] ELSE room
  /\ pc' = [pc EXCEPT ![c] = "idle"]
  /\ toast' = [toast EXCEPT ![c] = "create_error"]
  /\ UNCHANGED <<participants, nextCreatedAt, now, currentView, currentRoomId, cache,
                 isLeaving, countdown, timer, pendingStart, inbox, roomCodeToJoin>>
  /\ UNCHANGED <<otherJoin, prevPing, pingNotices, nextPing, otherRooms, gameResults>>

\* createRoomMutation of a user whose room is not followed: a room row with
\* the generated code is stored, unless the store holds the code already
OtherCreate(code) ==
  /\ otherRooms = {}
  /\ ToUpperCase(code) = code
  /\ ~RoomCodeTaken(code)
  /\ otherRooms' = {[id |-> OtherRoomId, room_code |-> code, status |-> "waiting"]}
  /\ UNCHANGED <<room, participants, nextCreatedAt, now, localVars, pingVars, otherJoin,
                 gameResults>>

\* joinRoomByCodeMutation.mutationFn run by a second session of user u (another
\* tab or device, whose page state is not followed): the lookup and both
\* checks pass, the insert is in flight
OtherSessionJoin(u) ==
  /\ ~otherJoin[u]
  /\ nextCreatedAt + Cardinality({d \in Users : pc[d] = "join_insert"})
       + Cardinality({d \in Users : otherJoin[d]}) < MaxInserts
  /\ room.status = "waiting"
  /\ Cardinality(participants) < room.max_players
  /\ u \notin UserIds(participants)
  /\ otherJoin' = [otherJoin EXCEPT ![u] = TRUE]
  /\ UNCHANGED <<room, participants, nextCreatedAt, now, localVars, pingVars>>
  /\ UNCHANGED pageVars

\* the participant insert of the second session
OtherSessionInsert(u) ==
  /\ otherJoin[u]
  /\ participants' = InsertParticipant(u)
  /\ nextCreatedAt' = IF u \in UserIds(participants) THEN nextCreatedAt ELSE nextCreatedAt + 1
  /\ otherJoin' = [otherJoin EXCEPT ![u] = FALSE]
  /\ UNCHANGED <<room, now, localVars, pingVars>>
  /\ UNCHANGED pageVars

\* BattleGame onLeave: back to the lobby from the active game
GameLeave(c) ==
  /\ currentView[c] = "game_active"
  /\ currentRoomId[c] # NoRoomId
  /\ currentView' = [currentView EXCEPT ![c] = "lobby"]
  /\ currentRoomId' = [currentRoomId EXCEPT ![c] = NoRoomId]
  /\ UNCHANGED <<room, participants, nextCreatedAt, now, cache, isLeaving, countdown,
                 timer, pendingStart, pc, inbox, roomCodeToJoin, toast>>
  /\ UNCHANGED <<otherJoin, prevPing, pingNotices, nextPing>>
  /\ gameResults' = [gameResults EXCEPT ![c] = Null]
  /\ UNCHANGED otherRooms

\* BattleGame onGameEnd: the results are stored and shown
OnGameEnd(c) ==
  /\ currentView[c] = "game_active"
  /\ currentRoomId[c] # NoRoomId
  /\ gameResults' = [gameResults EXCEPT ![c] = 1]
  /\ currentView' = [currentView EXCEPT ![c] = "game_results"]
  /\ UNCHANGED <<room, participants, nextCreatedAt, now, currentRoomId, cache, isLeaving,
                 countdown, timer, pendingStart, pc, inbox, roomCodeToJoin, toast>>
  /\ UNCHANGED <<otherJoin, prevPing, pingNotices, nextPing, otherRooms>>

\* BattleResults onPlayAgain: back to the lobby
PlayAgain(c) ==
  /\ currentView[c] = "game_results"
  /\ gameResults[c] # Null
  /\ currentView' = [currentView EXCEPT ![c] = "lobby"]
  /\ currentRoomId' = [currentRoomId EXCEPT ![c] = NoRoomId]
  /\ gameResults' = [gameResults EXCEPT ![c] = Null]
  /\ UNCHANGED <<room, participants, nextCreatedAt, now, cache, isLeaving,
                 countdown, timer, pendingStart, pc, inbox, roomCodeToJoin, toast>>
  /\ UNCHANGED <<otherJoin, prevPing, pingNotices, nextPing, otherRooms>>

\* BattleResults onLeave: back to the lobby
ResultsLeave(c) ==
  /\ currentView[c] = "game_results"
  /\ gameResults[c] # Null
  /\ currentView' = [currentView EXCEPT ![c] = "lobby"]
  /\ currentRoomId' = [currentRoomId EXCEPT ![c] = NoRoomId]
  /\ gameResults' = [gameResults EXCEPT ![c] = Null]
  /\ UNCHANGED <<room, participants, nextCreatedAt, now, cache, isLeaving,
                 countdown, timer, pendingStart, pc, inbox, roomCodeToJoin, toast>>
  /\ UNCHANGED <<otherJoin, prevPing, pingNotices, nextPing, otherRooms>>

\* The user navigates away from the Battle page and opens it again: the page
\* state starts over in the lobby and BattleRoom unmounts, while the
\* participant row and the query cache stay
Reopen(c) ==
  /\ Mounted(c)
  /\ currentView' = [currentView EXCEPT ![c] = "lobby"]
  /\ currentRoomId' = [currentRoomId EXCEPT ![c] = NoRoomId]
  /\ roomCodeToJoin' = [roomCodeToJoin EXCEPT ![c] = ""]
  /\ isLeaving' = [isLeaving EXCEPT ![c] = FALSE]
  /\ countdown' = [countdown EXCEPT ![c] = Null]
  /\ timer' = [timer EXCEPT ![c] = "off"]
  /\ inbox' = [inbox EXCEPT ![c] = {}]
  /\ toast' = [toast EXCEPT ![c] = "none"]
  /\ prevPing' = [prevPing EXCEPT ![c] = NoPing]
  /\ UNCHANGED <<room, participants, nextCreatedAt, now, cache, pendingStart, pc>>
  /\ UNCHANGED <<otherJoin, pingNotices, nextPing>>
  /\ gameResults' = [gameResults EXCEPT ![c] = Null]
  /\ UNCHANGED otherRooms

\* an inactive query is garbage-collected from the query cache
CacheGC(c) ==
  /\ ~Mounted(c)
  /\ cache[c].loaded
  /\ cache' = [cache EXCEPT ![c] = NoData]
  /\ UNCHANGED <<room, participants, nextCreatedAt, now, currentView, currentRoomId,
                 isLeaving, countdown, timer, pendingStart, pc, inbox, roomCodeToJoin, toast>>
  /\ UNCHANGED <<otherJoin, prevPing, pingNotices, nextPing>>
  /\ UNCHANGED pageVars

\* ------------------------------------------------------------- BattleRoom
\* the room query delivers a snapshot that differs from the cached one
Refresh(c) ==
  /\ Mounted(c)
  /\ Snapshot # cache[c]
  /\ cache' = [cache EXCEPT ![c] = Snapshot]
  /\ Rendered(c, Snapshot, isLeaving[c], toast[c])
  /\ UNCHANGED <<room, participants, nextCreatedAt, now, pc, roomCodeToJoin, otherJoin, nextPing>>
  /\ UNCHANGED pageVars

\* one second passes: running intervals become due, and the clock moves when
\* some timestamp makes its value observable
Advance ==
  /\ IF TimestampsExist THEN now < MaxTime ELSE \E c \in Users : timer[c] = "armed"
  /\ now' = IF TimestampsExist THEN now + 1 ELSE now
  /\ timer' = [c \in Users |-> IF timer[c] = "armed" THEN "due" ELSE timer[c]]
  /\ UNCHANGED <<room, participants, nextCreatedAt, currentView, currentRoomId, cache,
                 isLeaving, countdown, pendingStart, pc, inbox, roomCodeToJoin, toast>>
  /\ UNCHANGED <<otherJoin, prevPing, pingNotices, nextPing>>
  /\ UNCHANGED pageVars

\* the setInterval callback of the countdown effect, and the effect re-run
\* that the changed countdown triggers
Tick(c) ==
  /\ timer[c] = "due"
  /\ LET prev == countdown[c]
         currentRoomState == cache[c]
         e == CountdownEffect(cache[c])
         tickWrite == /\ currentRoomState.loaded
                      /\ currentRoomState.room.status # "in_progress"
                      /\ prev <= 1
                      /\ currentRoomState.room.status = "waiting"
     IN IF prev = Null
        THEN /\ timer' = [timer EXCEPT ![c] = "off"]
             /\ UNCHANGED <<countdown, pendingStart>>
        ELSE /\ countdown' = [countdown EXCEPT ![c] = e.countdown]
             /\ timer' = [timer EXCEPT ![c] = e.timer]
             /\ pendingStart' = [pendingStart EXCEPT ![c] = @ \/ tickWrite \/ e.write]
  /\ UNCHANGED <<room, participants, nextCreatedAt, now, currentView, currentRoomId,
                 cache, isLeaving, pc, inbox, roomCodeToJoin, toast>>
  /\ UNCHANGED <<otherJoin, prevPing, pingNotices, nextPing>>
  /\ UNCHANGED pageVars

\* the store applies update({status: 'in_progress', countdown_initiated_at:
\* null}).eq('id', roomId) of updateStatus()
StartWriteApply(c) ==
  /\ pendingStart[c]
  /\ room' = [room EXCEPT !.status = "in_progress", !.countdown_initiated_at = Null]
  /\ pendingStart' = [pendingStart EXCEPT ![c] = FALSE]
  /\ inbox' = Notified("in_progress")
  /\ UNCHANGED <<participants, nextCreatedAt, now, currentView, currentRoomId, cache,
                 isLeaving, countdown, timer, pc, roomCodeToJoin, toast>>
  /\ UNCHANGED <<otherJoin, prevPing, pingNotices, nextPing>>
  /\ UNCHANGED pageVars


\* leaveRoomMutation.mutationFn: setIsLeaving(true), then the delete of the
\* client's own participant rows
LeaveClick(c) ==
  /\ Mounted(c)
  /\ cache[c].loaded
  /\ pc[c] = "idle"
  /\ isLeaving' = [isLeaving EXCEPT ![c] = TRUE]
  /\ participants' = {p \in participants : p.user_id # c}
  /\ pc' = [pc EXCEPT ![c] = "leave_host"]
  /\ UNCHANGED <<room, nextCreatedAt, now, currentView, currentRoomId, cache, countdown,
                 timer, pendingStart, inbox, roomCodeToJoin, toast>>
  /\ UNCHANGED <<otherJoin, prevPing, pingNotices, nextPing>>
  /\ UNCHANGED pageVars

\* the host the leaving host hands the room to: the earliest-created row of
\* its snapshot that is not its own
NewHostOf(c, d) == Earliest({p \in d.battle_participants : p.user_id # c}).user_id

\* leaveRoomMutation.onSuccess, host transfer: decided on the client's snapshot
TransfersHost(c, d) ==
  /\ d.loaded
  /\ d.room.host_id = c
  /\ {p \in d.battle_participants : p.user_id # c} # {}

LeaveHost(c) ==
  /\ pc[c] = "leave_host"
  /\ IF TransfersHost(c, cache[c])
     THEN /\ room' = [room EXCEPT !.host_id = NewHostOf(c, cache[c])]
          /\ inbox' = Notified(room.status)
     ELSE UNCHANGED <<room, inbox>>
  /\ pc' = [pc EXCEPT ![c] = "leave_revert"]
  /\ UNCHANGED <<participants, nextCreatedAt, now, currentView, currentRoomId, cache,
                 isLeaving, countdown, timer, pendingStart, roomCodeToJoin, toast>>
  /\ UNCHANGED <<otherJoin, prevPing, pingNotices, nextPing>>
  /\ UNCHANGED pageVars

\* leaveRoomMutation.onSuccess, rest: the "Left Room" toast, the status revert
\* decided on the cached snapshot, then onLeave() and the unmount of BattleRoom
LeaveRevert(c) ==
  /\ pc[c] = "leave_revert"
  /\ IF NeedsRevert(cache[c])
     THEN room' = [room EXCEPT !.status = "waiting", !.countdown_initiated_at = Null]
     ELSE UNCHANGED room
  /\ pc' = [pc EXCEPT ![c] = "idle"]
  /\ toast' = [toast EXCEPT ![c] = "left"]
  /\ \E v \in ViewsAfterLeave(c) : currentView' = [currentView EXCEPT ![c] = v]
  /\ currentRoomId' = [currentRoomId EXCEPT ![c] = NoRoomId]
  /\ isLeaving' = [isLeaving EXCEPT ![c] = FALSE]
  /\ countdown' = [countdown EXCEPT ![c] = Null]
  /\ timer' = [timer EXCEPT ![c] = "off"]
  /\ inbox' = [inbox EXCEPT ![c] = {}]
  /\ prevPing' = [prevPing EXCEPT ![c] = NoPing]
  /\ UNCHANGED <<participants, nextCreatedAt, now, cache, pendingStart, roomCodeToJoin>>
  /\ UNCHANGED <<otherJoin, pingNotices, nextPing>>
  /\ UNCHANGED pageVars

\* removeParticipantMutation.mutationFn, called from the remove button of a
\* participant row of the snapshot: host check and self check on the
\* snapshot, then the delete of the target's rows
KickClick(c, target) ==
  /\ Mounted(c)
  /\ pc[c] = "idle"
  /\ cache[c].loaded
  /\ cache[c].room.host_id = c
  /\ target # c
  /\ target \in UserIds(cache[c].battle_participants)
  /\ participants' = {p \in participants : p.user_id # target}
  /\ pc' = [pc EXCEPT ![c] = "kick_revert"]
  /\ UNCHANGED <<room, nextCreatedAt, now, currentView, currentRoomId, cache, isLeaving,
                 countdown, timer, pendingStart, inbox, roomCodeToJoin, toast>>
  /\ UNCHANGED <<otherJoin, prevPing, pingNotices, nextPing>>
  /\ UNCHANGED pageVars

\* removeParticipantMutation.onSuccess: the status revert decided on the
\* cached snapshot
KickRevert(c) ==
  /\ pc[c] = "kick_revert"
  /\ IF NeedsRevert(cache[c])
     THEN room' = [room EXCEPT !.status = "waiting", !.countdown_initiated_at = Null]
     ELSE UNCHANGED room
  /\ pc' = [pc EXCEPT ![c] = "idle"]
  /\ UNCHANGED <<participants, nextCreatedAt, now, currentView, currentRoomId, cache,
                 isLeaving, countdown, timer, pendingStart, inbox, roomCodeToJoin, toast>>
  /\ UNCHANGED <<otherJoin, prevPing, pingNotices, nextPing>>
  /\ UNCHANGED pageVars

\* startBattleMutation.mutationFn, called from the "Start Battle Now! (FFA)"
\* button, which is rendered for the host of a waiting ffa room with more than
\* one player and no countdown yet, all read from the snapshot
\* (a countdown that the stored room would start is only started while the
\* clock can still run it to its end)
ManualStart(c) ==
  /\ Mounted(c)
  /\ cache[c].loaded
  /\ cache[c].room.host_id = c
  /\ cache[c].room.battle_type = "ffa"
  /\ cache[c].room.status = "waiting"
  /\ Cardinality(cache[c].battle_participants) > 1
  /\ cache[c].room.countdown_initiated_at = Null
  /\ (now + CountdownDuration("ffa") <= MaxTime \/ room.status # "waiting")
  /\ room' = [room EXCEPT !.countdown_initiated_at = now,
                          !.host_ping_requested_at = Null,
                          !.last_ping_sender_id = Null]
  /\ inbox' = Notified(room.status)
  /\ UNCHANGED <<participants, nextCreatedAt, now, currentView, currentRoomId, cache,
                 isLeaving, countdown, timer, pendingStart, pc, roomCodeToJoin, toast>>
  /\ UNCHANGED <<otherJoin, prevPing, pingNotices, nextPing>>
  /\ UNCHANGED pageVars

\* pingHostMutation.mutationFn and onSuccess, called from the bell button on
\* the host's badge, which is rendered for a non-host in a waiting ffa room,
\* all read from the snapshot
PingHost(c) ==
  /\ Mounted(c)
  /\ cache[c].loaded
  /\ cache[c].room.host_id # c
  /\ cache[c].room.host_id \in UserIds(cache[c].battle_participants)
  /\ cache[c].room.battle_type = "ffa"
  /\ cache[c].room.status = "waiting"
  /\ nextPing < MaxPings
  /\ room' = [room EXCEPT !.host_ping_requested_at = nextPing,
                          !.last_ping_sender_id = c]
  /\ nextPing' = nextPing + 1
  /\ inbox' = Notified(room.status)
  /\ toast' = [toast EXCEPT ![c] = "ping_sent"]
  /\ UNCHANGED <<participants, nextCreatedAt, now, currentView, currentRoomId, cache,
                 isLeaving, countdown, timer, pendingStart, pc, roomCodeToJoin,
                 otherJoin, prevPing, pingNotices>>
  /\ UNCHANGED pageVars

\* the room is closed from outside BattleRoom
ExternalComplete ==
  /\ room.status = "in_progress"
  /\ room' = [room EXCEPT !.status = "completed"]
  /\ inbox' = Notified("completed")
  /\ UNCHANGED <<participants, nextCreatedAt, now, currentView, currentRoomId, cache,
                 isLeaving, countdown, timer, pendingStart, pc, roomCodeToJoin, toast>>
  /\ UNCHANGED <<otherJoin, prevPing, pingNotices, nextPing>>
  /\ UNCHANGED pageVars

\* A roomStatusChannel handler and unmount that leave the countdown interval
\* running; kept to show what C26 rules out.
DeliverKeepingInterval(c, s) ==
  /\ Mounted(c)
  /\ s \in inbox[c]
  /\ currentView' = [currentView EXCEPT ![c] = IF s = "in_progress" THEN "game_active" ELSE "lobby"]
  /\ currentRoomId' = [currentRoomId EXCEPT ![c] = IF s = "in_progress" THEN @ ELSE NoRoomId]
  /\ toast' = [toast EXCEPT ![c] = IF s = "completed" THEN "closed" ELSE @]
  /\ isLeaving' = [isLeaving EXCEPT ![c] = FALSE]
  /\ inbox' = [inbox EXCEPT ![c] = {}]
  /\ prevPing' = [prevPing EXCEPT ![c] = NoPing]
  /\ UNCHANGED <<room, participants, nextCreatedAt, now, cache, pendingStart, pc, roomCodeToJoin>>
  /\ UNCHANGED <<countdown, timer, otherJoin, pingNotices, nextPing>>
  /\ UNCHANGED pageVars

\* roomStatusChannel handler: in_progress clears the interval and calls
\* onBattleStart, completed calls onLeave and shows "Room Closed"; either way
\* BattleRoom unmounts
Deliver(c, s) ==
  /\ Mounted(c)
  /\ s \in inbox[c]
  /\ currentView' = [currentView EXCEPT ![c] = IF s = "in_progress" THEN "game_active" ELSE "lobby"]
  /\ currentRoomId' = [currentRoomId EXCEPT ![c] = IF s = "in_progress" THEN @ ELSE NoRoomId]
  /\ toast' = [toast EXCEPT ![c] = IF s = "completed" THEN "closed" ELSE @]
  /\ isLeaving' = [isLeaving EXCEPT ![c] = FALSE]
  /\ countdown' = [countdown EXCEPT ![c] = Null]
  /\ timer' = [timer EXCEPT ![c] = "off"]
  /\ inbox' = [inbox EXCEPT ![c] = {}]
  /\ prevPing' = [prevPing EXCEPT ![c] = NoPing]
  /\ UNCHANGED <<room, participants, nextCreatedAt, now, cache, pendingStart, pc, roomCodeToJoin>>
  /\ UNCHANGED <<otherJoin, pingNotices, nextPing>>
  /\ UNCHANGED pageVars

\* ---------------------------------------------------------- specification
\* the state after createRoom by user 1: the room row, the creator's
\* participant row, the creator in the waiting room, everyone else in the lobby
InitOfType(t) ==
  /\ room = NewRoom(1, t)
  /\ participants = {[user_id |-> 1, created_at |-> 0]}
  /\ nextCreatedAt = 1
  /\ now = 0
  /\ currentView = [c \in Users |-> IF c = 1 THEN "room_waiting" ELSE "lobby"]
  /\ currentRoomId = [c \in Users |-> IF c = 1 THEN RoomId ELSE NoRoomId]
  /\ cache = [c \in Users |-> NoData]
  /\ isLeaving = [c \in Users |-> FALSE]
  /\ countdown = [c \in Users |-> Null]
  /\ timer = [c \in Users |-> "off"]
  /\ pendingStart = [c \in Users |-> FALSE]
  /\ pc = [c \in Users |-> "idle"]
  /\ inbox = [c \in Users |-> {}]
  /\ roomCodeToJoin = [c \in Users |-> ""]
  /\ toast = [c \in Users |-> "none"]
  /\ otherJoin = [c \in Users |-> FALSE]
  /\ prevPing = [c \in Users |-> NoPing]
  /\ pingNotices = {}
  /\ nextPing = 0
  /\ otherRooms = {}
  /\ gameResults = [c \in Users |-> Null]

Init == \E t \in {"1v1", "ffa"} : InitOfType(t)

Next ==
  \/ \E c \in Users : JoinFromList(c)
  \/ \E c \in Users : \E code \in Codes : JoinByCode(c, code)
  \/ \E c \in Users : JoinInsert(c)
  \/ \E c \in Users : Refresh(c)
  \/ \E c \in Users : LeaveClick(c)
  \/ \E c \in Users : LeaveHost(c)
  \/ \E c \in Users : LeaveRevert(c)
  \/ \E c \in Users : \E t \in Users : KickClick(c, t)
  \/ \E c \in Users : KickRevert(c)
  \/ \E c \in Users : ManualStart(c)
  \/ Advance
  \/ \E c \in Users : Tick(c)
  \/ \E c \in Users : StartWriteApply(c)
  \/ ExternalComplete
  \/ \E c \in Users : \E s \in {"in_progress", "completed"} : Deliver(c, s)
  \/ \E c \in Users : GameLeave(c)
  \/ \E c \in Users : Reopen(c)
  \/ \E c \in Users : CacheGC(c)
  \/ \E u \in Users : OtherSessionJoin(u)
  \/ \E u \in Users : OtherSessionInsert(u)
  \/ \E c \in Users : PingHost(c)
  \/ \E c \in Users : OnGameEnd(c)
  \/ \E c \in Users : PlayAgain(c)
  \/ \E c \in Users : ResultsLeave(c)
  \/ \E c \in Users : \E t \in BattleTypes : CreateRoom(c, t)
  \/ \E c \in Users : CreateParticipant(c)
  \/ \E c \in Users : CreateRollback(c)
  \/ \E code \in Codes : OtherCreate(code)

Spec == Init /\ [][Next]_vars


\* Membership of a 1v1 room: joins from the lobby list, leaves, kicks and
\* snapshot refreshes.
InitMembers == InitOfType("1v1")

NextMembers ==
  \/ \E c \in Users : JoinFromList(c)
  \/ \E c \in Users : JoinInsert(c)
  \/ \E c \in Users : Refresh(c)
  \/ \E c \in Users : LeaveClick(c)
  \/ \E c \in Users : LeaveHost(c)
  \/ \E c \in Users : LeaveRevert(c)
  \/ \E c \in Users : \E t \in Users : KickClick(c, t)
  \/ \E c \in Users : KickRevert(c)
  \/ \E c \in Users : CacheGC(c)

SpecMembers == InitMembers /\ [][NextMembers]_vars


\* Joining by typed code: a 1v1 room, users who join, reopen the page and
\* join again.
NextJoin ==
  \/ \E c \in Users : \E code \in Codes : JoinByCode(c, code)
  \/ \E c \in Users : JoinInsert(c)
  \/ \E c \in Users : Refresh(c)
  \/ \E c \in Users : Reopen(c)

SpecJoin == InitMembers /\ [][NextJoin]_vars

\* The countdown of a 1v1 room that fills up and stays full: joins, snapshot
\* refreshes, the clock and the countdown interval.  Requests in flight
\* complete, mounted clients keep receiving snapshots, time passes and due
\* intervals fire.
NextCountdown ==
  \/ \E c \in Users : JoinFromList(c)
  \/ \E c \in Users : JoinInsert(c)
  \/ \E c \in Users : Refresh(c)
  \/ Advance
  \/ \E c \in Users : Tick(c)

FairCountdown ==
  /\ WF_vars(Advance)
  /\ \A c \in Users : WF_vars(JoinInsert(c))
  /\ \A c \in Users : WF_vars(Refresh(c))
  /\ \A c \in Users : WF_vars(Tick(c))

SpecCountdown == InitMembers /\ [][NextCountdown]_vars /\ FairCountdown

\* A free-for-all room with three players in it, all in the waiting room: the
\* host's manual start, the countdown, the start write, the change feed and
\* the closing of the room.
FfaPlayers == {u \in Users : u <= 3}

InitFFA ==
  /\ room = NewRoom(1, "ffa")
  /\ participants = {[user_id |-> u, created_at |-> u - 1] : u \in FfaPlayers}
  /\ nextCreatedAt = Cardinality(FfaPlayers)
  /\ now = 0
  /\ currentView = [c \in Users |-> IF c \in FfaPlayers THEN "room_waiting" ELSE "lobby"]
  /\ currentRoomId = [c \in Users |-> IF c \in FfaPlayers THEN RoomId ELSE NoRoomId]
  /\ cache = [c \in Users |-> NoData]
  /\ isLeaving = [c \in Users |-> FALSE]
  /\ countdown = [c \in Users |-> Null]
  /\ timer = [c \in Users |-> "off"]
  /\ pendingStart = [c \in Users |-> FALSE]
  /\ pc = [c \in Users |-> "idle"]
  /\ inbox = [c \in Users |-> {}]
  /\ roomCodeToJoin = [c \in Users |-> ""]
  /\ toast = [c \in Users |-> IF c \in FfaPlayers THEN "joined" ELSE "none"]
  /\ otherJoin = [c \in Users |-> FALSE]
  /\ prevPing = [c \in Users |-> NoPing]
  /\ pingNotices = {}
  /\ nextPing = 0
  /\ otherRooms = {}
  /\ gameResults = [c \in Users |-> Null]

NextFFA ==
  \/ \E c \in Users : Refresh(c)
  \/ \E c \in Users : ManualStart(c)
  \/ Advance
  \/ \E c \in Users : Tick(c)
  \/ \E c \in Users : StartWriteApply(c)
  \/ ExternalComplete
  \/ \E c \in Users : \E s \in {"in_progress", "completed"} : Deliver(c, s)
  \/ \E c \in Users : GameLeave(c)

FairFFA ==
  /\ WF_vars(Advance)
  /\ \A c \in Users : WF_vars(Refresh(c))
  /\ \A c \in Users : WF_vars(Tick(c))
  /\ \A c \in Users : WF_vars(StartWriteApply(c))

SpecFFA == InitFFA /\ [][NextFFA]_vars /\ FairFFA

\* Joins of the same users from two sessions each.
NextSessions ==
  \/ \E c \in Users : JoinFromList(c)
  \/ \E c \in Users : JoinInsert(c)
  \/ \E u \in Users : OtherSessionJoin(u)
  \/ \E u \in Users : OtherSessionInsert(u)
  \/ \E c \in Users : Refresh(c)

SpecSessions == InitMembers /\ [][NextSessions]_vars

\* A room of type t with the given players in it, all in the waiting room
\* before their first snapshot, everyone else in the lobby.
InitWith(t, players) ==
  /\ room = NewRoom(1, t)
  /\ participants = {[user_id |-> u, created_at |-> u - 1] : u \in players}
  /\ nextCreatedAt = Cardinality(players)
  /\ now = 0
  /\ currentView = [c \in Users |-> IF c \in players THEN "room_waiting" ELSE "lobby"]
  /\ currentRoomId = [c \in Users |-> IF c \in players THEN RoomId ELSE NoRoomId]
  /\ cache = [c \in Users |-> NoData]
  /\ isLeaving = [c \in Users |-> FALSE]
  /\ countdown = [c \in Users |-> Null]
  /\ timer = [c \in Users |-> "off"]
  /\ pendingStart = [c \in Users |-> FALSE]
  /\ pc = [c \in Users |-> "idle"]
  /\ inbox = [c \in Users |-> {}]
  /\ roomCodeToJoin = [c \in Users |-> ""]
  /\ toast = [c \in Users |-> IF c \in players THEN "joined" ELSE "none"]
  /\ otherJoin = [c \in Users |-> FALSE]
  /\ prevPing = [c \in Users |-> NoPing]
  /\ pingNotices = {}
  /\ nextPing = 0
  /\ otherRooms = {}
  /\ gameResults = [c \in Users |-> Null]

\* A free-for-all room of two players that the host starts while a third
\* user joins from the lobby list.
InitLateJoin == InitWith("ffa", {u \in Users : u <= 2})

NextLateJoin ==
  \/ \E c \in Users : JoinFromList(c)
  \/ \E c \in Users : JoinInsert(c)
  \/ \E c \in Users : Refresh(c)
  \/ \E c \in Users : ManualStart(c)
  \/ Advance
  \/ \E c \in Users : Tick(c)
  \/ \E c \in Users : StartWriteApply(c)
  \/ \E c \in Users : Deliver(c, "in_progress")

\* requests in flight are applied and change-feed events are handled
FairLateJoin ==
  /\ FairFFA
  /\ \A c \in Users : WF_vars(JoinInsert(c))
  /\ \A c \in Users : WF_vars(Deliver(c, "in_progress"))

SpecLateJoin == InitLateJoin /\ [][NextLateJoin]_vars /\ FairLateJoin

\* A free-for-all room of two players in its waiting phase: pings, and pages
\* that are reopened and rejoin the room.
InitWaiting == InitWith("ffa", {u \in Users : u <= 2})

NextWaiting ==
  \/ \E c \in Users : Refresh(c)
  \/ \E c \in Users : PingHost(c)
  \/ \E c \in Users : Reopen(c)
  \/ \E c \in Users : JoinFromList(c)
  \/ \E c \in Users : JoinInsert(c)

SpecWaiting == InitWaiting /\ [][NextWaiting]_vars

\* The same room up to the start of the battle: manual start, countdown,
\* start write and change feed.
NextManual ==
  \/ \E c \in Users : Refresh(c)
  \/ \E c \in Users : ManualStart(c)
  \/ Advance
  \/ \E c \in Users : Tick(c)
  \/ \E c \in Users : StartWriteApply(c)
  \/ \E c \in Users : Deliver(c, "in_progress")

SpecManual == InitFFA /\ [][NextManual]_vars /\ FairFFA

\* The free-for-all room of two players with pings up to the start of the
\* battle.
NextPingStart ==
  \/ \E c \in Users : Refresh(c)
  \/ \E c \in Users : PingHost(c)
  \/ \E c \in Users : ManualStart(c)
  \/ Advance
  \/ \E c \in Users : Tick(c)
  \/ \E c \in Users : StartWriteApply(c)
  \/ \E c \in Users : Deliver(c, "in_progress")

SpecPingStart == InitWaiting /\ [][NextPingStart]_vars

\* The free-for-all room of two players from its start to its close, every
\* status event being handled by the clients still subscribed.
NextClose ==
  \/ \E c \in Users : Refresh(c)
  \/ \E c \in Users : ManualStart(c)
  \/ Advance
  \/ \E c \in Users : Tick(c)
  \/ \E c \in Users : StartWriteApply(c)
  \/ ExternalComplete
  \/ \E c \in Users : \E s \in {"in_progress", "completed"} : Deliver(c, s)
  \/ \E c \in Users : GameLeave(c)

FairClose ==
  /\ FairFFA
  /\ \A c \in Users : \A s \in {"in_progress", "completed"} : WF_vars(Deliver(c, s))

SpecClose == InitWaiting /\ [][NextClose]_vars /\ FairClose

\* Host failover in a 1v1 room: joins, snapshot refreshes and leaves, where
\* every request in flight completes and mounted clients keep receiving
\* snapshots.
NextFailover ==
  \/ \E c \in Users : JoinFromList(c)
  \/ \E c \in Users : JoinInsert(c)
  \/ \E c \in Users : Refresh(c)
  \/ \E c \in Users : LeaveClick(c)
  \/ \E c \in Users : LeaveHost(c)
  \/ \E c \in Users : LeaveRevert(c)

FairFailover ==
  /\ \A c \in Users : WF_vars(JoinInsert(c))
  /\ \A c \in Users : WF_vars(Refresh(c))
  /\ \A c \in Users : WF_vars(LeaveHost(c))
  /\ \A c \in Users : WF_vars(LeaveRevert(c))

SpecFailover == InitMembers /\ [][NextFailover]_vars /\ FairFailover

\* The Battle page of the two players of a free-for-all room: the start of the
\* battle, leaves, the game and its results.
NextPage ==
  \/ \E c \in Users : Refresh(c)
  \/ \E c \in Users : ManualStart(c)
  \/ Advance
  \/ \E c \in Users : Tick(c)
  \/ \E c \in Users : StartWriteApply(c)
  \/ \E c \in Users : Deliver(c, "in_progress")
  \/ \E c \in Users : LeaveClick(c)
  \/ \E c \in Users : LeaveHost(c)
  \/ \E c \in Users : LeaveRevert(c)
  \/ \E c \in Users : GameLeave(c)
  \/ \E c \in Users : OnGameEnd(c)
  \/ \E c \in Users : PlayAgain(c)
  \/ \E c \in Users : ResultsLeave(c)

SpecPage == InitWaiting /\ [][NextPage]_vars

\* Room creation: every user in the lobby of a store without the followed
\* room.
InitLobby ==
  /\ room = NoRoom
  /\ participants = {}
  /\ nextCreatedAt = 0
  /\ now = 0
  /\ currentView = [c \in Users |-> "lobby"]
  /\ currentRoomId = [c \in Users |-> NoRoomId]
  /\ cache = [c \in Users |-> NoData]
  /\ isLeaving = [c \in Users |-> FALSE]
  /\ countdown = [c \in Users |-> Null]
  /\ timer = [c \in Users |-> "off"]
  /\ pendingStart = [c \in Users |-> FALSE]
  /\ pc = [c \in Users |-> "idle"]
  /\ inbox = [c \in Users |-> {}]
  /\ roomCodeToJoin = [c \in Users |-> ""]
  /\ toast = [c \in Users |-> "none"]
  /\ otherJoin = [c \in Users |-> FALSE]
  /\ prevPing = [c \in Users |-> NoPing]
  /\ pingNotices = {}
  /\ nextPing = 0
  /\ otherRooms = {}
  /\ gameResults = [c \in Users |-> Null]

NextCreate ==
  \/ \E c \in Users : \E t \in BattleTypes : CreateRoom(c, t)
  \/ \E c \in Users : CreateParticipant(c)
  \/ \E c \in Users : CreateRollback(c)
  \/ \E code \in Codes : OtherCreate(code)
  \/ \E c \in Users : Refresh(c)
  \/ \E c \in Users : Reopen(c)

SpecCreate == InitLobby /\ [][NextCreate]_vars

\* Joining by typed code while another room is created in the store.
NextCodes ==
  \/ \E code \in Codes : OtherCreate(code)
  \/ \E c \in Users : \E code \in Codes : JoinByCode(c, code)
  \/ \E c \in Users : JoinInsert(c)
  \/ \E c \in Users : Refresh(c)
  \/ \E c \in Users : Reopen(c)

SpecCodes == InitMembers /\ [][NextCodes]_vars


\* ------------------------------------------------------------------ claims
LeaveInFlight(c) == pc[c] \in {"leave_host", "leave_revert"}

\* C1: after every join and leave the room holds at most max_players
\* participant rows, also when two clients read the room with one free slot
\* before either inserts.
C1_CapacityRespected == Cardinality(participants) <= room.max_players

\* C4: whenever the room has a participant row and no leave is half-way
\* through, host_id is the user_id of one of the participant rows.
C4_HostIsParticipant ==
  ((\A c \in Users : ~LeaveInFlight(c)) /\ participants # {})
    => room.host_id \in UserIds(participants)

\* C5: when the stored host leaves and another participant row remains in the
\* store, the host step of its leave writes the user_id of the remaining
\* stored row with the earliest created_at.
C5_EarliestBecomesHost ==
  [][\A c \in Users :
       (LeaveHost(c) /\ room.host_id = c /\ participants # {})
         => room'.host_id = Earliest(participants).user_id]_vars

\* C9: a client in the waiting room that has observed the current state of
\* the room, in which its own participant row is gone, and that did not start
\* a leave, has been sent to the lobby with the "Kicked from Room" notice (so
\* no such client is still mounted); a client whose own leave is in flight
\* was not shown that notice.
C9_KickedVsLeft ==
  \A c \in Users :
    /\ (Mounted(c) /\ cache[c] = Snapshot /\ ~isLeaving[c])
         => c \in UserIds(participants)
    /\ LeaveInFlight(c) => toast[c] # "kicked"

\* C10: joinRoomByCode(code) by c fails with room-not-found when no waiting
\* room has that code, fails with room-full when a user who is not in the room
\* finds it at capacity, and for a user who is already a participant succeeds
\* with no insert and moves the view to the waiting room, also at capacity.
C10_JoinOutcomes ==
  [][\A c \in Users : \A code \in Codes :
       JoinByCode(c, code) =>
         LET roomFound == ToUpperCase(code) = RoomCode /\ room.status = "waiting"
             member == c \in UserIds(participants)
         IN /\ ~roomFound => toast'[c] = "not_found"
            /\ (roomFound /\ member)
                 => /\ toast'[c] = "joined"
                    /\ participants' = participants
                    /\ currentView'[c] = "room_waiting"
            /\ (roomFound /\ ~member /\ Cardinality(participants) = room.max_players)
                 => toast'[c] = "full"]_vars

RoomFull == Cardinality(participants) = room.max_players

SomeoneMounted == \E c \in Users : Mounted(c)

\* C6: once a 1v1 room is waiting at max_players with a client in the waiting
\* room, and stays so, countdown_initiated_at becomes non-null in the store.
C6_CountdownStartWritten ==
  <>[](RoomFull /\ room.status = "waiting" /\ SomeoneMounted)
    => <>(room.countdown_initiated_at # Null)

\* C7: if a 1v1 room stays at 2 participants with a client mounted in the
\* waiting room, the stored status eventually becomes in_progress.
C7_FullRoomStarts ==
  <>[](Cardinality(participants) = 2 /\ SomeoneMounted)
    => <>(room.status = "in_progress")

\* C2: a waiting -> in_progress write that finds the stored status no longer
\* waiting leaves the room row as it is, so of two racing writes only the
\* first changes the stored room.
C2_SecondStartIsNoOp ==
  [][\A c \in Users :
       (StartWriteApply(c) /\ room.status # "waiting") => room' = room]_vars

\* C3: the stored status only moves waiting -> in_progress -> completed; the
\* one backward step is in_progress -> waiting, taken by a leave or a kick; a
\* completed room keeps its status.
C3_StatusOrder ==
  [][/\ room.status = "completed" => room'.status = "completed"
     /\ room.status = "waiting" => room'.status \in {"waiting", "in_progress"}
     /\ (room.status = "in_progress" /\ room'.status = "waiting")
          => \E c \in Users : LeaveRevert(c) \/ KickRevert(c)]_vars

C8_CountdownAfterManualStart ==
  /\ room.battle_type = "ffa"
  /\ room.status = "waiting"
  /\ room.countdown_initiated_at # Null
  /\ \E c \in Users : Mounted(c) /\ countdown[c] # Null /\ timer[c] = "due"

\* C8: in the free-for-all room below capacity no client shows a countdown or
\* issues the start write while no countdown start is stored; a client whose
\* snapshot holds the host's countdown start shows a countdown; and once the
\* countdown start is stored the status eventually becomes in_progress.
C8_ManualStartOnly ==
  /\ [](\A c \in Users :
          /\ (room.status = "waiting" /\ room.countdown_initiated_at = Null)
               => (countdown[c] = Null /\ timer[c] = "off" /\ ~pendingStart[c])
          /\ (Mounted(c) /\ cache[c].loaded /\ cache[c].room.status = "waiting"
                /\ cache[c].room.countdown_initiated_at # Null)
               => countdown[c] # Null)
  /\ [][\A c \in Users : ManualStart(c) => room'.countdown_initiated_at # Null]_vars
  /\ (room.countdown_initiated_at # Null) ~> (room.status = "in_progress")

\* C11: a participant row is only ever inserted while the stored status of
\* the room is waiting, also when the join's room lookup ran before the status
\* changed.
C11_InsertOnlyWhileWaiting ==
  [][(participants' \ participants # {}) => room.status = "waiting"]_vars

\* C19: once the stored status is in_progress, every client mounted in the
\* waiting room eventually shows the active game, whether or not a change-feed
\* event reaches it.
C19_AllEnterGame ==
  \A c \in Users :
    (room.status = "in_progress" /\ Mounted(c)) ~> (currentView[c] = "game_active")

C13_CountdownStartOnlyWhileWaiting ==
  room.countdown_initiated_at # Null => room.status = "waiting"

Instants == 0..MaxTime

\* C14 as claimed: for the stored countdown_initiated_at and either battle
\* type, the remaining times computed at now1 and at now1 + D differ by
\* exactly D, for every now1 and D.
C14_RemainingDiffersByD ==
  room.countdown_initiated_at # Null =>
    \A t \in {"1v1", "ffa"} : \A now1 \in Instants : \A D \in Instants :
      CalculatedTimeRemaining(t, room.countdown_initiated_at, now1)
        - CalculatedTimeRemaining(t, room.countdown_initiated_at, now1 + D) = D

C14_CountdownElapsedShown ==
  \E c \in Users :
    /\ Mounted(c)
    /\ cache[c].loaded
    /\ cache[c].room.countdown_initiated_at # Null
    /\ now - cache[c].room.countdown_initiated_at >= CountdownDuration(cache[c].room.battle_type)
    /\ countdown[c] = 0

\* C14 amended: the remaining time at now1 + D is the remaining time at now1
\* less D, but never below 0: the two differ by exactly D while now1 + D is
\* not past the end of the countdown, and the remaining time is 0 after it.
C14_RemainingDropsToZero ==
  room.countdown_initiated_at # Null =>
    \A t \in {"1v1", "ffa"} : \A now1 \in Instants : \A D \in Instants :
      LET r1 == CalculatedTimeRemaining(t, room.countdown_initiated_at, now1)
          r2 == CalculatedTimeRemaining(t, room.countdown_initiated_at, now1 + D)
      IN /\ r2 = (IF r1 - D > 0 THEN r1 - D ELSE 0)
         /\ (now1 + D - room.countdown_initiated_at <= CountdownDuration(t)) => r1 - r2 = D

\* C16: a kick deletes the target's participant row only when the acting user
\* is the host the store names at the time of the delete and the target is
\* another user.
C16_KickOnlyByStoredHost ==
  [][\A c \in Users : \A target \in Users :
       KickClick(c, target) => (room.host_id = c /\ target # c)]_vars

\* C17: manualStart writes countdown_initiated_at only when the stored room is
\* free-for-all, names the acting user host, is waiting and has more than one
\* participant.
C17_ManualStartOnlyWhenAllowed ==
  [][\A c \in Users :
       ManualStart(c) =>
         /\ room.battle_type = "ffa"
         /\ room.host_id = c
         /\ room.status = "waiting"
         /\ Cardinality(participants) > 1]_vars

\* C18: pingHost writes the ping record only when the stored room is
\* free-for-all, waiting, and names another user host; once the stored status
\* has left waiting the ping fields stay as they are.
C18_PingOnlyWhileWaiting ==
  [][\A c \in Users :
       PingHost(c) =>
         /\ room.battle_type = "ffa"
         /\ room.host_id # c
         /\ room.status = "waiting"]_vars

\* C15: a "Ping Received!" notice is only raised on the client of the user the
\* store names host, and each (host_ping_requested_at, last_ping_sender_id)
\* pair is notified at most once, whoever is host and whenever its client
\* mounted.
C15_PingNoticedOnceByHost ==
  [][\A n \in pingNotices' \ pingNotices :
       /\ n.to = room.host_id
       /\ \A m \in pingNotices : ~(m.at = n.at /\ m.sender = n.sender)]_vars

\* C20: once the stored status is completed, every client mounted in the
\* room's waiting view returns to the lobby with currentRoomId cleared and the
\* "Room Closed" notice shown.
C20_AllReturnToLobby ==
  \A c \in Users :
    (room.status = "completed" /\ Mounted(c))
      ~> (currentView[c] = "lobby" /\ currentRoomId[c] = NoRoomId /\ toast[c] = "closed")

\* C24: when the host leaves and the store holds no other participant row,
\* the leave writes nothing to host_id.
C24_NoHostWriteWhenAlone ==
  [][\A c \in Users :
       (LeaveHost(c) /\ room.host_id = c /\ participants = {})
         => room'.host_id = room.host_id]_vars

\* C28: "Kicked from Room" is shown, and the client sent to the lobby, only
\* when the store holds no participant row of the client.
C28_KickedOnlyWhenRowAbsent ==
  [][\A c \in Users :
       (toast'[c] = "kicked" /\ toast[c] # "kicked")
         => c \notin UserIds(participants')]_vars

\* C27: when a finished leave of the host has left host_id naming a user
\* without a participant row while some participant row remains, host_id
\* eventually names a present participant again (or no participant remains).
C27_HostHealsEventually ==
  (/\ participants # {}
   /\ room.host_id \notin UserIds(participants)
   /\ \A c \in Users : ~LeaveInFlight(c))
    ~> (room.host_id \in UserIds(participants) \/ participants = {})

\* C25: when a mounted client that stays in the room receives a snapshot with
\* another participant the previous snapshot did not have, "Player Joined" is
\* raised; with another participant gone, "Player Left" is raised; with the
\* same ids, neither.
C25_JoinLeaveNoticed ==
  [][\A c \in Users :
       (/\ Refresh(c)
        /\ cache[c].loaded
        /\ Mounted(c)'
        /\ toast'[c] # "ping_received")
         => LET before == UserIds(cache[c].battle_participants) \ {c}
                after == UserIds(cache'[c].battle_participants) \ {c}
            IN /\ (after \ before # {} /\ before \ after = {}) => toast'[c] = "player_joined"
               /\ (before \ after # {} /\ after \ before = {}) => toast'[c] = "player_left"
               /\ after = before => toast'[c] = toast[c]]_vars

\* C29: on the Battle page, currentView room_waiting or game_active implies a
\* currentRoomId, and currentView game_results implies stored gameResults.
C29_ViewHasItsData ==
  \A c \in Users :
    /\ currentView[c] \in {"room_waiting", "game_active"} => currentRoomId[c] # NoRoomId
    /\ currentView[c] = "game_results" => gameResults[c] # Null

\* C23: a leave or kick moves the stored status from in_progress back to
\* waiting only in a room that was full before it, that is, one that went
\* in_progress through the full-room countdown.
C23_RevertOnlyAfterFullRoom ==
  [][(room.status = "in_progress" /\ room'.status = "waiting")
       => Cardinality(participants) >= room.max_players - 1]_vars

C30_NoRoomWithoutParticipants ==
  (\A c \in Users : pc[c] = "idle")
    => ~(room.status = "waiting" /\ participants = {})

====
